---- MODULE Spec2Model ----
(***************************************************************************)
(* Model of the AgentOven agent runner                                     *)
(* (control-plane/internal/process/templates/agent_runner.py): the task    *)
(* store `tasks`, create_task, handle_jsonrpc and the HTTP server that     *)
(* feeds it.                                                               *)
(*                                                                         *)
(* The server is http.server.HTTPServer (line 305), which handles one      *)
(* request at a time: ServerWorkers is the number of requests that can be  *)
(* inside a handler at once.  Requests of different clients may be         *)
(* outstanding together; those not yet accepted wait in the listen queue.  *)
(*                                                                         *)
(* A task is a Python dict, an object with identity.  The object stored    *)
(* under tasks[id] carries in `owner` the worker whose local variable      *)
(* `task` still refers to it (0 when no handler does).  A worker whose     *)
(* object was replaced in the store keeps writing to its own object,       *)
(* held in wtask.                                                          *)
(*                                                                         *)
(* Spec follows JSON-RPC calls posted to "/"; HttpSpec adds every verb,    *)
(* path and kind of body of do_GET and do_POST; AdapterSpec follows one    *)
(* run of create_task through call_llm, for every provider configuration   *)
(* and every shape of reply.                                               *)
(***************************************************************************)
EXTENDS Integers, Sequences, FiniteSets, TLC

VARIABLES
  tasks,     \* the store: id -> [present, obj, owner]
  cst,       \* client -> "idle" | "waiting" | "got"
  creq,      \* client -> its latest request
  cresp,     \* client -> the response to it
  backlog,   \* clients whose request waits in the listen queue, in order
  issued,    \* requests issued so far
  wpc,       \* worker -> position in the handler
  wcl,       \* worker -> the client it serves
  wid,       \* worker -> task_id of create_task
  wtask,     \* worker -> its task object once replaced in the store
  wtext,     \* worker -> response_text, or the exception's text
  wprior,    \* worker -> state stored under task_id before create_task
  lastOpBy,  \* id -> client holding the response of the last operation
             \* handled on it (0: none)
  cout,      \* client -> what the provider did in its send (NoOutcome: no call)
  overlap,   \* client -> its send was outstanding together with another
             \* client's send of the same identifier; its cancel arrived
             \* while the provider call of that identifier was in flight
  config,    \* the configuration read from the environment (lines 34-43)
  messages,  \* create_task: the message list handed to call_llm
  request,   \* call_llm: the url, headers and body of the provider request
  result,    \* call_llm: the decoded reply of the provider
  response_text,  \* call_llm: what it returned, or what it raised
  atask,     \* create_task: the task of the run followed through call_llm
  apc        \* position of that run

\* the variables of one run followed through the provider adapter
adapter == <<config, messages, request, result, response_text, atask, apc>>
vars == <<tasks, cst, creq, cresp, backlog, issued, wpc, wcl, wid, wtask,
          wtext, wprior, lastOpBy, cout, overlap, adapter>>

\* ---- bounds of the model ----
\* requests issued in one run, and identifiers uuid4 may generate
MaxRequests == 3
NumGen == 1

\* two clients, each with at most one request outstanding
Clients == {1, 2}

\* ---- the server: HTTPServer processes requests synchronously ----
\* a server with a thread for each request (ThreadingHTTPServer)
ServerWorkers_threaded == Cardinality(Clients)
ServerWorkers == 1
Workers == 1 .. ServerWorkers

\* identifiers callers supply, and those uuid.uuid4() generates (line 211)
CallerIds == {<<"a">>, <<"b">>}
GenIds == {<<"uuid", i>> : i \in 1 .. NumGen}
TaskIds == CallerIds \cup GenIds
\* params.get("id", "") of tasks/get and tasks/cancel (lines 226, 233)
EmptyId == <<"">>

\* ---- message parts (lines 212-217) ----
TextPart(s) == [isDict |-> TRUE, hasText |-> TRUE, text |-> s]
NoTextPart == [isDict |-> TRUE, hasText |-> FALSE, text |-> <<>>]
NonDictPart == [isDict |-> FALSE, hasText |-> FALSE, text |-> <<>>]
\* a missing message or missing parts is the empty list, by the defaults
PartsChoices ==
  { <<>>,
    <<NoTextPart, TextPart(<<>>)>>,
    <<TextPart(<<"H">>), NonDictPart, TextPart(<<"i">>)>> }

\* a scan without the '"text" in part' test: str(None) is appended
RECURSIVE UserText_nokeytest(_)
UserText_nokeytest(parts) ==
  IF parts = <<>> THEN <<>>
  ELSE LET part == Head(parts)
       IN  (IF ~part.isDict THEN <<>>
            ELSE IF part.hasText THEN part.text ELSE <<"None">>)
             \o UserText_nokeytest(Tail(parts))
RECURSIVE UserText(_)
UserText(parts) ==
  IF parts = <<>> THEN <<>>
  ELSE LET part == Head(parts)
       IN  (IF part.isDict /\ part.hasText THEN part.text ELSE <<>>)
             \o UserText(Tail(parts))

\* ---- requests ----
\* verb and path: the request line; body: what the bytes of the body are,
\*   "object"    a JSON object
\*   "nonobject" JSON of another type, such as []
\*   "badjson"   text that is not JSON, such as {oops
\*   "badutf8"   bytes that are not text in any UTF encoding, such as \xff
\* rid: <<>> when the object has no "id", else <<the id>>
\* method: "" when the object has no "method"
\* id: <<>> when params has no id, else <<the id>>
NoReq == [verb |-> "none", path |-> "", body |-> "none", rid |-> <<>>,
          method |-> "none", id |-> <<>>, parts |-> <<>>]
\* line 284
DispatchPaths == {"/", "/a2a"}
\* a health route that answers /health only
HealthPaths_healthonly == {"/health"}
\* line 261
HealthPaths == {"/health", "/status"}
\* line 269
CardPaths == {"/.well-known/agent-card.json", "/agent-card"}
KnownMethods == {"tasks/send", "tasks/get", "tasks/cancel"}
\* a JSON-RPC call as a client posts it
Rpc(path, rid, method, id, parts) ==
  [verb |-> "POST", path |-> path, body |-> "object", rid |-> rid,
   method |-> method, id |-> id, parts |-> parts]
SendRequests ==
  { Rpc("/", <<1>>, "tasks/send", i, p) :
      i \in {<<>>} \cup {<<x>> : x \in CallerIds}, p \in PartsChoices }
QueryRequests ==
  { Rpc("/", <<1>>, m, i, <<>>) :
      m \in {"tasks/get", "tasks/cancel"},
      i \in {<<>>} \cup {<<x>> : x \in CallerIds} }
OtherRequests == { Rpc("/", <<1>>, "tasks/list", <<>>, <<>>) }
Requests == SendRequests \cup QueryRequests \cup OtherRequests

\* ---- provider outcomes of urlopen + json.loads (lines 124-129) ----
\* ok: a reply whose text is extracted; http_error: a non-2xx status, raised
\* again as RuntimeError; network: URLError, a refused connection or the
\* 120 s timeout; bad_json: a reply json.loads cannot decode.  text is the
\* reply text or str(e).
ProviderOutcomes ==
  { [kind |-> "ok", text |-> "r1"],
    [kind |-> "ok", text |-> "r2"],
    [kind |-> "http_error", text |-> "LLM API error 500: boom"],
    [kind |-> "network", text |-> "<urlopen error timed out>"],
    [kind |-> "bad_json", text |-> "Expecting value"] }
NoOutcome == [kind |-> "none", text |-> ""]

\* ---- task records (lines 147-152) ----
WorkingStatus == [state |-> "working", message |-> <<>>]
\* create_task that continues the stored record instead of replacing it
NewTask_continue(task_id) ==
  IF tasks[task_id].present
  THEN [tasks[task_id].obj EXCEPT !.status = WorkingStatus]
  ELSE [id |-> task_id, status |-> WorkingStatus, artifacts |-> <<>>,
        history |-> <<>>]
NewTask(task_id) ==
  [id |-> task_id, status |-> WorkingStatus, artifacts |-> <<>>, history |-> <<>>]
NoTask == [id |-> <<>>, status |-> [state |-> "none", message |-> <<>>],
           artifacts |-> <<>>, history |-> <<>>]
CompletedStatus == [state |-> "completed", message |-> <<>>]
\* an except branch that leaves the state as it was
FailedStatus_working(e) == WorkingStatus
\* an except branch that drops the error text
FailedStatus_nomessage(e) == [state |-> "failed", message |-> <<>>]
FailedStatus(e) == [state |-> "failed", message |-> <<e>>]
CanceledStatus == [state |-> "canceled", message |-> <<>>]

\* ---- responses ----
\* http: the status line, 0 when the connection closes with no response
\* kind, rid, code, task: the JSON body
NoResp == [http |-> 0, kind |-> "none", rid |-> <<>>, code |-> 0, task |-> NoTask]
jsonrpc_result(req_id, task) ==
  [kind |-> "result", rid |-> req_id, code |-> 0, task |-> task]
\* an error envelope that leaves the id out
jsonrpc_error_noid(req_id, code) ==
  [kind |-> "error", rid |-> <<>>, code |-> code, task |-> NoTask]
jsonrpc_error(req_id, code) ==
  [kind |-> "error", rid |-> req_id, code |-> code, task |-> NoTask]
\* the bodies that are not JSON-RPC envelopes
HealthBody == [kind |-> "health", rid |-> <<>>, code |-> 0, task |-> NoTask]
CardBody == [kind |-> "card", rid |-> <<>>, code |-> 0, task |-> NoTask]
NotFoundBody == [kind |-> "not found", rid |-> <<>>, code |-> 0, task |-> NoTask]
InvalidJsonBody ==
  [kind |-> "invalid JSON", rid |-> <<>>, code |-> 0, task |-> NoTask]
respond_json(status, data) ==
  [http |-> status, kind |-> data.kind, rid |-> data.rid, code |-> data.code,
   task |-> data.task]
\* an exception leaves the handler: socketserver logs it and closes the
\* connection, the client reads no response
Dropped ==
  [http |-> 0, kind |-> "dropped", rid |-> <<>>, code |-> 0, task |-> NoTask]

Absent == [present |-> FALSE, obj |-> NoTask, owner |-> 0]

\* ---- configuration (lines 34-43) ----
MODEL_NAME == "gpt-5"
API_KEY == "sk-1"
\* endpoint: the pieces of API_ENDPOINT, <<>> when it is not set
DefaultConfig == [provider |-> "openai", endpoint |-> <<>>, description |-> ""]
NoRequest == [url |-> <<>>, headers |-> <<>>, body |-> <<>>]
NoResult == [t |-> "none", v |-> <<>>]

CoreInit ==
  /\ tasks = [x \in TaskIds |-> Absent]
  /\ cst = [c \in Clients |-> "idle"]
  /\ creq = [c \in Clients |-> NoReq]
  /\ cresp = [c \in Clients |-> NoResp]
  /\ backlog = <<>>
  /\ issued = 0
  /\ wpc = [w \in Workers |-> "idle"]
  /\ wcl = [w \in Workers |-> 0]
  /\ wid = [w \in Workers |-> <<>>]
  /\ wtask = [w \in Workers |-> NoTask]
  /\ wtext = [w \in Workers |-> ""]
  /\ wprior = [w \in Workers |-> "none"]
  /\ lastOpBy = [x \in TaskIds |-> 0]
  /\ cout = [c \in Clients |-> NoOutcome]
  /\ overlap = [c \in Clients |-> FALSE]

Init ==
  /\ CoreInit
  /\ config = DefaultConfig
  /\ messages = <<>>
  /\ request = NoRequest
  /\ result = NoResult
  /\ response_text = NoOutcome
  /\ atask = NoTask
  /\ apc = "off"

\* ---- the object a worker's local variable `task` refers to ----
Attached(w) == tasks[wid[w]].present /\ tasks[wid[w]].owner = w
TaskObj(w) == IF Attached(w) THEN tasks[wid[w]].obj ELSE wtask[w]
\* one dict shared by every stored task
WriteTask_shared(w, obj) ==
  /\ tasks' = [x \in TaskIds |->
                IF tasks[x].present THEN [tasks[x] EXCEPT !.obj = obj] ELSE tasks[x]]
  /\ UNCHANGED wtask
WriteTask(w, obj) ==
  IF Attached(w)
  THEN /\ tasks' = [tasks EXCEPT ![wid[w]].obj = obj]
       /\ UNCHANGED wtask
  ELSE /\ wtask' = [wtask EXCEPT ![w] = obj]
       /\ UNCHANGED tasks

\* ---- clients: a request arrives at the listening socket ----
IdlessSend(r) ==
  r.method = "tasks/send" /\ r.id = <<>> /\ UserText(r.parts) # <<>>
ValidSend(r) == r.method = "tasks/send" /\ UserText(r.parts) # <<>>
\* request r arrives while request q, in state st, asks to send the same id
Overlaps(q, st, r) ==
  /\ st = "waiting"
  /\ ValidSend(q) /\ ValidSend(r)
  /\ q.id # <<>> /\ q.id = r.id
\* a tasks/cancel arrives while the provider call of its identifier runs
InFlight(r) ==
  /\ r.method = "tasks/cancel" /\ r.id # <<>>
  /\ \E w \in Workers : wpc[w] = "call" /\ wid[w] = r.id[1]
FreshIds == {g \in GenIds : ~tasks[g].present}
Issue(c, r) ==
  /\ cst[c] \in {"idle", "got"}
  /\ issued < MaxRequests
  /\ IdlessSend(r) =>
       Cardinality(FreshIds) >
         Cardinality({d \in Clients : cst[d] = "waiting" /\ IdlessSend(creq[d])})
  /\ cst' = [cst EXCEPT ![c] = "waiting"]
  /\ creq' = [creq EXCEPT ![c] = r]
  /\ cresp' = [cresp EXCEPT ![c] = NoResp]
  /\ backlog' = Append(backlog, c)
  /\ issued' = issued + 1
  /\ overlap' = [d \in Clients |->
                  IF d = c
                  THEN \/ \E e \in Clients \ {c} : Overlaps(creq[e], cst[e], r)
                       \/ InFlight(r)
                  ELSE overlap[d] \/ Overlaps(creq[d], cst[d], r)]
  /\ lastOpBy' = [x \in TaskIds |-> IF lastOpBy[x] = c THEN 0 ELSE lastOpBy[x]]
  /\ cout' = [cout EXCEPT ![c] = NoOutcome]
  /\ UNCHANGED <<tasks, wpc, wcl, wid, wtask, wtext, wprior, adapter>>

\* ---- the server takes the next request (serve_forever, do_POST) ----
Takes(w) == wpc[w] = "idle" /\ backlog # <<>>
\* json.loads of the body, lines 278-282
ParseOutcome(body) ==
  CASE body = "badjson" -> "JSONDecodeError"
    [] body = "badutf8" -> "UnicodeDecodeError"
    [] OTHER -> "parsed"
\* do_POST hands the parsed body to handle_jsonrpc, lines 284-286
Dispatched(w) ==
  /\ Takes(w)
  /\ creq[Head(backlog)].verb = "POST"
  /\ ParseOutcome(creq[Head(backlog)].body) = "parsed"
  /\ creq[Head(backlog)].path \in DispatchPaths
Accepts(w, method) ==
  /\ Dispatched(w)
  /\ creq[Head(backlog)].body = "object"
  /\ creq[Head(backlog)].method = method

Respond(c, resp) ==
  /\ cresp' = [cresp EXCEPT ![c] = resp]
  /\ cst' = [cst EXCEPT ![c] = "got"]
  /\ UNCHANGED creq

QueryId(r) == IF r.id = <<>> THEN EmptyId ELSE r.id[1]
Stored(task_id) == task_id \in TaskIds /\ tasks[task_id].present
Touch(task_id, c) ==
  IF task_id \in TaskIds THEN [lastOpBy EXCEPT ![task_id] = c] ELSE lastOpBy

\* lines 239-240
HandleUnknown(w) ==
  /\ Takes(w)
  /\ Accepts(w, creq[Head(backlog)].method)
  /\ creq[Head(backlog)].method \notin KnownMethods
  /\ Respond(Head(backlog),
             respond_json(200, jsonrpc_error(creq[Head(backlog)].rid, -32601)))
  /\ backlog' = Tail(backlog)
  /\ UNCHANGED <<tasks, issued, wpc, wcl, wid, wtask, wtext, wprior, lastOpBy, cout, overlap, adapter>>

\* lines 225-230
\* tasks/get answering with a fresh record of that id
GetResponse_fresh(req_id, task_id) ==
  IF Stored(task_id) THEN jsonrpc_result(req_id, NewTask(task_id))
  ELSE jsonrpc_error(req_id, -32602)
GetResponse(req_id, task_id) ==
  IF Stored(task_id) THEN jsonrpc_result(req_id, tasks[task_id].obj)
  ELSE jsonrpc_error(req_id, -32602)
HandleGet(w) ==
  /\ Accepts(w, "tasks/get")
  /\ LET c == Head(backlog)
         task_id == QueryId(creq[c])
     IN  /\ Respond(c, respond_json(200, GetResponse(creq[c].rid, task_id)))
         /\ lastOpBy' = Touch(task_id, c)
  /\ backlog' = Tail(backlog)
  /\ UNCHANGED <<tasks, issued, wpc, wcl, wid, wtask, wtext, wprior, cout, overlap, adapter>>

\* lines 232-237
CancelStub(task_id) ==
  [id |-> task_id, status |-> CanceledStatus, artifacts |-> <<>>, history |-> <<>>]
\* cancel that only cancels a task still working
CancelStore_ifworking(task_id) ==
  IF Stored(task_id) /\ tasks[task_id].obj.status.state = "working"
  THEN [tasks EXCEPT ![task_id].obj.status = CanceledStatus]
  ELSE tasks
\* cancel that stores a canceled record for an unknown id
CancelStore_create(task_id) ==
  IF task_id \in TaskIds
  THEN [tasks EXCEPT ![task_id] =
          [present |-> TRUE,
           obj |-> IF tasks[task_id].present
                   THEN [tasks[task_id].obj EXCEPT !.status = CanceledStatus]
                   ELSE [id |-> task_id, status |-> CanceledStatus,
                         artifacts |-> <<>>, history |-> <<>>],
           owner |-> tasks[task_id].owner]]
  ELSE tasks
CancelStore(task_id) ==
  IF Stored(task_id)
  THEN [tasks EXCEPT ![task_id].obj.status = CanceledStatus]
  ELSE tasks
HandleCancel(w) ==
  /\ Accepts(w, "tasks/cancel")
  /\ LET c == Head(backlog)
         task_id == QueryId(creq[c])
     IN  /\ tasks' = CancelStore(task_id)
         /\ Respond(c, respond_json(200,
                          jsonrpc_result(creq[c].rid, CancelStub(task_id))))
         /\ lastOpBy' = Touch(task_id, c)
  /\ backlog' = Tail(backlog)
  /\ UNCHANGED <<issued, wpc, wcl, wid, wtask, wtext, wprior, cout, overlap, adapter>>

\* lines 209-220: no text content
SendReject(w) ==
  /\ Accepts(w, "tasks/send")
  /\ UserText(creq[Head(backlog)].parts) = <<>>
  /\ Respond(Head(backlog),
             respond_json(200, jsonrpc_error(creq[Head(backlog)].rid, -32602)))
  /\ backlog' = Tail(backlog)
  /\ UNCHANGED <<tasks, issued, wpc, wcl, wid, wtask, wtext, wprior, lastOpBy, cout, overlap, adapter>>

\* lines 209-222 and create_task lines 147-159: the fresh record is stored
\* and the handler enters call_llm
\* uuid4 yields an identifier not in use: the first unused one stands for it
SendIds(r) ==
  IF r.id = <<>>
  THEN {g \in FreshIds : \A h \in FreshIds : g[2] <= h[2]}
  ELSE {r.id[1]}
SendCreate(w) ==
  /\ Accepts(w, "tasks/send")
  /\ UserText(creq[Head(backlog)].parts) # <<>>
  /\ \E task_id \in SendIds(creq[Head(backlog)]) :
       LET c == Head(backlog)
           old == tasks[task_id]
       IN  /\ tasks' = [tasks EXCEPT ![task_id] =
                          [present |-> TRUE, obj |-> NewTask(task_id), owner |-> w]]
           /\ wtask' = [v \in Workers |->
                          IF v # w /\ old.present /\ old.owner = v
                          THEN old.obj ELSE wtask[v]]
           /\ wpc' = [wpc EXCEPT ![w] = "call"]
           /\ wcl' = [wcl EXCEPT ![w] = c]
           /\ wid' = [wid EXCEPT ![w] = task_id]
           /\ wprior' = [wprior EXCEPT ![w] =
                           IF old.present THEN old.obj.status.state ELSE "none"]
           /\ lastOpBy' = [lastOpBy EXCEPT ![task_id] = c]
  /\ backlog' = Tail(backlog)
  /\ UNCHANGED <<cst, creq, cresp, issued, wtext, cout, overlap, adapter>>

\* call_llm, lines 124-137: returns the reply text or raises
CallLLM(w, o) ==
  /\ wpc[w] = "call"
  /\ wtext' = [wtext EXCEPT ![w] = o.text]
  /\ wpc' = [wpc EXCEPT ![w] = IF o.kind = "ok" THEN "artifact" ELSE "except"]
  /\ cout' = [cout EXCEPT ![wcl[w]] = o]
  /\ UNCHANGED <<tasks, cst, creq, cresp, backlog, issued, wcl, wid, wtask,
                 wprior, lastOpBy, overlap, adapter>>

\* lines 163-165
AppendArtifact(w) ==
  /\ wpc[w] = "artifact"
  /\ WriteTask(w, [TaskObj(w) EXCEPT !.artifacts = Append(@, wtext[w])])
  /\ wpc' = [wpc EXCEPT ![w] = "completed"]
  /\ UNCHANGED <<cst, creq, cresp, backlog, issued, wcl, wid, wtext, wprior,
                 lastOpBy, cout, overlap, adapter>>

\* line 166
SetCompleted(w) ==
  /\ wpc[w] = "completed"
  /\ WriteTask(w, [TaskObj(w) EXCEPT !.status = CompletedStatus])
  /\ wpc' = [wpc EXCEPT ![w] = "history"]
  /\ UNCHANGED <<cst, creq, cresp, backlog, issued, wcl, wid, wtext, wprior,
                 lastOpBy, cout, overlap, adapter>>

\* a run that records no history entry
AppendHistory_none(w) ==
  /\ wpc[w] = "history"
  /\ wpc' = [wpc EXCEPT ![w] = "return"]
  /\ UNCHANGED <<tasks, wtask, cst, creq, cresp, backlog, issued, wcl, wid, wtext,
                 wprior, lastOpBy, cout, overlap, adapter>>
\* lines 167-170
AppendHistory(w) ==
  /\ wpc[w] = "history"
  /\ WriteTask(w, [TaskObj(w) EXCEPT !.history = Append(@, wtext[w])])
  /\ wpc' = [wpc EXCEPT ![w] = "return"]
  /\ UNCHANGED <<cst, creq, cresp, backlog, issued, wcl, wid, wtext, wprior,
                 lastOpBy, cout, overlap, adapter>>

\* lines 171-177
SetFailed(w) ==
  /\ wpc[w] = "except"
  /\ WriteTask(w, [TaskObj(w) EXCEPT !.status = FailedStatus(wtext[w])])
  /\ wpc' = [wpc EXCEPT ![w] = "return"]
  /\ UNCHANGED <<cst, creq, cresp, backlog, issued, wcl, wid, wtext, wprior,
                 lastOpBy, cout, overlap, adapter>>

\* line 179, line 223 and _respond_json: the task object is serialised
\* into the response and the handler's reference to it ends
Return(w) ==
  /\ wpc[w] = "return"
  /\ Respond(wcl[w],
             respond_json(200, jsonrpc_result(creq[wcl[w]].rid, TaskObj(w))))
  /\ tasks' = IF Attached(w) THEN [tasks EXCEPT ![wid[w]].owner = 0] ELSE tasks
  /\ wpc' = [wpc EXCEPT ![w] = "idle"]
  /\ wcl' = [wcl EXCEPT ![w] = 0]
  /\ wid' = [wid EXCEPT ![w] = <<>>]
  /\ wtask' = [wtask EXCEPT ![w] = NoTask]
  /\ wtext' = [wtext EXCEPT ![w] = ""]
  /\ wprior' = [wprior EXCEPT ![w] = "none"]
  /\ UNCHANGED <<backlog, issued, lastOpBy, cout, overlap, adapter>>

Next ==
  \/ \E c \in Clients, r \in Requests : Issue(c, r)
  \/ \E w \in Workers : HandleUnknown(w)
  \/ \E w \in Workers : HandleGet(w)
  \/ \E w \in Workers : HandleCancel(w)
  \/ \E w \in Workers : SendReject(w)
  \/ \E w \in Workers : SendCreate(w)
  \/ \E w \in Workers, o \in ProviderOutcomes : CallLLM(w, o)
  \/ \E w \in Workers : AppendArtifact(w)
  \/ \E w \in Workers : SetCompleted(w)
  \/ \E w \in Workers : AppendHistory(w)
  \/ \E w \in Workers : SetFailed(w)
  \/ \E w \in Workers : Return(w)

Spec == Init /\ [][Next]_vars

\* A handler that has entered create_task keeps running: urlopen returns,
\* raises or times out (timeout=120, line 125), and the statements after it
\* do not block.
RunStep ==
  \E w \in Workers :
    \/ \E o \in ProviderOutcomes : CallLLM(w, o)
    \/ AppendArtifact(w)
    \/ SetCompleted(w)
    \/ AppendHistory(w)
    \/ SetFailed(w)
    \/ Return(w)
FairSpec == Spec /\ WF_vars(RunStep)

\* ---- the transport: every verb, path and body a client can send ----
Idle == <<tasks, issued, wpc, wcl, wid, wtask, wtext, wprior, lastOpBy, cout,
          overlap, adapter>>
\* do_GET, lines 260-272
DoGET(w) ==
  /\ Takes(w)
  /\ creq[Head(backlog)].verb = "GET"
  /\ LET path == creq[Head(backlog)].path
     IN  Respond(Head(backlog),
                 IF path \in HealthPaths THEN respond_json(200, HealthBody)
                 ELSE IF path \in CardPaths THEN respond_json(200, CardBody)
                 ELSE respond_json(404, NotFoundBody))
  /\ backlog' = Tail(backlog)
  /\ UNCHANGED Idle
\* do_POST, lines 278-282: the except clause answers, before any routing
PostInvalidJson(w) ==
  /\ Takes(w)
  /\ creq[Head(backlog)].verb = "POST"
  /\ ParseOutcome(creq[Head(backlog)].body) = "JSONDecodeError"
  /\ Respond(Head(backlog), respond_json(400, InvalidJsonBody))
  /\ backlog' = Tail(backlog)
  /\ UNCHANGED Idle
\* do_POST, lines 278-279: UnicodeDecodeError is a ValueError that is not a
\* JSONDecodeError, the except clause does not catch it
PostUndecodable(w) ==
  /\ Takes(w)
  /\ creq[Head(backlog)].verb = "POST"
  /\ ParseOutcome(creq[Head(backlog)].body) = "UnicodeDecodeError"
  /\ Respond(Head(backlog), Dropped)
  /\ backlog' = Tail(backlog)
  /\ UNCHANGED Idle
\* do_POST, lines 284-289: the else branch
PostNotFound(w) ==
  /\ Takes(w)
  /\ creq[Head(backlog)].verb = "POST"
  /\ ParseOutcome(creq[Head(backlog)].body) = "parsed"
  /\ creq[Head(backlog)].path \notin DispatchPaths
  /\ Respond(Head(backlog), respond_json(404, NotFoundBody))
  /\ backlog' = Tail(backlog)
  /\ UNCHANGED Idle
\* handle_jsonrpc, line 205: request.get on a list, a string or a number
\* raises AttributeError
DispatchRaises(w) ==
  /\ Dispatched(w)
  /\ creq[Head(backlog)].body = "nonobject"
  /\ Respond(Head(backlog), Dropped)
  /\ backlog' = Tail(backlog)
  /\ UNCHANGED Idle

Raw(verb, path, body) ==
  [verb |-> verb, path |-> path, body |-> body, rid |-> <<>>, method |-> "",
   id |-> <<>>, parts |-> <<>>]
OtherPaths == {"/tasks"}
GetRequests ==
  { Raw("GET", p, "none") :
      p \in {"/health", "/status", "/.well-known/agent-card.json",
              "/agent-card", "/", "/a2a"} \cup OtherPaths }
PostRequests ==
  { Raw("POST", p, b) :
      p \in {"/", "/a2a", "/health"} \cup OtherPaths,
      b \in {"nonobject", "badjson", "badutf8"} }
RpcRequests ==
  { Rpc(p, <<1>>, m, <<<<"a">>>>, <<TextPart(<<"H">>)>>) :
      p \in {"/", "/a2a"} \cup OtherPaths,
      m \in KnownMethods \cup {"tasks/list"} }
    \cup { Rpc("/a2a", <<>>, "tasks/send", <<>>, <<>>),
           Rpc("/", <<>>, "", <<>>, <<>>) }
HttpRequests == GetRequests \cup PostRequests \cup RpcRequests

HttpNext ==
  \/ \E c \in Clients, r \in HttpRequests : Issue(c, r)
  \/ \E w \in Workers : DoGET(w)
  \/ \E w \in Workers : PostInvalidJson(w)
  \/ \E w \in Workers : PostUndecodable(w)
  \/ \E w \in Workers : PostNotFound(w)
  \/ \E w \in Workers : DispatchRaises(w)
  \/ \E w \in Workers : HandleUnknown(w)
  \/ \E w \in Workers : HandleGet(w)
  \/ \E w \in Workers : HandleCancel(w)
  \/ \E w \in Workers : SendReject(w)
  \/ \E w \in Workers : SendCreate(w)
  \/ \E w \in Workers, o \in ProviderOutcomes : CallLLM(w, o)
  \/ \E w \in Workers : AppendArtifact(w)
  \/ \E w \in Workers : SetCompleted(w)
  \/ \E w \in Workers : AppendHistory(w)
  \/ \E w \in Workers : SetFailed(w)
  \/ \E w \in Workers : Return(w)
HttpSpec == Init /\ [][HttpNext]_vars

\* ---- the provider adapter: one run of create_task through call_llm ----
Providers == {"openai", "azure-openai", "anthropic", "ollama", "mistral"}
Endpoints == {<<>>, <<"http://gateway", "/">>}
Descriptions == {"", "An AgentOven managed agent"}
Configs == [provider : Providers, endpoint : Endpoints, description : Descriptions]

\* str.rstrip("/")
RECURSIVE rstrip(_)
rstrip(str) ==
  IF str # <<>> /\ str[Len(str)] = "/" THEN rstrip(SubSeq(str, 1, Len(str) - 1))
  ELSE str
\* lines 47-64
get_api_url(c) ==
  IF c.endpoint # <<>>
  THEN LET base == rstrip(c.endpoint)
       IN  IF c.provider = "azure-openai"
           THEN base \o <<"/openai/deployments/", MODEL_NAME,
                          "/chat/completions?api-version=2024-12-01-preview">>
           ELSE IF c.provider = "ollama" THEN base \o <<"/api/chat">>
           ELSE base \o <<"/v1/chat/completions">>
  ELSE IF c.provider = "openai" THEN <<"https://api.openai.com/v1/chat/completions">>
  ELSE IF c.provider = "anthropic" THEN <<"https://api.anthropic.com/v1/messages">>
  ELSE IF c.provider = "ollama" THEN <<"http://localhost:11434/api/chat">>
  ELSE <<"https://api.openai.com/v1/chat/completions">>

\* lines 156-159
BuildMessagesList(c, user_message) ==
  (IF c.description # "" THEN <<[role |-> "system", content |-> c.description]>>
   ELSE <<>>)
    \o <<[role |-> "user", content |-> user_message]>>

\* lines 76-82: the loop over messages
RECURSIVE system_msg(_)
system_msg(msgs) ==
  IF msgs = <<>> THEN ""
  ELSE IF msgs[Len(msgs)].role = "system" THEN msgs[Len(msgs)].content
  ELSE system_msg(SubSeq(msgs, 1, Len(msgs) - 1))
\* a loop that passes every message on
user_msgs_all(msgs) == msgs
RECURSIVE user_msgs(_)
user_msgs(msgs) ==
  IF msgs = <<>> THEN <<>>
  ELSE (IF Head(msgs).role = "system" THEN <<>> ELSE <<Head(msgs)>>)
         \o user_msgs(Tail(msgs))

\* lines 84-90, 98-102 and 106-110
Body(c, msgs) ==
  IF c.provider = "anthropic"
  THEN ("model" :> MODEL_NAME) @@ ("max_tokens" :> 4096)
         @@ ("messages" :> user_msgs(msgs))
         @@ (IF system_msg(msgs) # "" THEN "system" :> system_msg(msgs) ELSE <<>>)
  ELSE IF c.provider = "ollama"
  THEN ("model" :> MODEL_NAME) @@ ("messages" :> msgs) @@ ("stream" :> FALSE)
  ELSE ("model" :> MODEL_NAME) @@ ("messages" :> msgs)
         @@ ("max_completion_tokens" :> 4096)
\* headers of the else branch kept for azure-openai, api-key added
Headers_azurebearer(c) ==
  IF c.provider = "anthropic"
  THEN ("Content-Type" :> <<"application/json">>) @@ ("x-api-key" :> <<API_KEY>>)
         @@ ("anthropic-version" :> <<"2023-06-01">>)
  ELSE IF c.provider = "ollama"
  THEN ("Content-Type" :> <<"application/json">>)
  ELSE IF c.provider = "azure-openai"
  THEN ("Content-Type" :> <<"application/json">>)
         @@ ("Authorization" :> <<"Bearer ", API_KEY>>)
         @@ ("api-key" :> <<API_KEY>>)
  ELSE ("Content-Type" :> <<"application/json">>)
         @@ ("Authorization" :> <<"Bearer ", API_KEY>>)
\* lines 92-96, 103 and 111-119
Headers(c) ==
  IF c.provider = "anthropic"
  THEN ("Content-Type" :> <<"application/json">>) @@ ("x-api-key" :> <<API_KEY>>)
         @@ ("anthropic-version" :> <<"2023-06-01">>)
  ELSE IF c.provider = "ollama"
  THEN ("Content-Type" :> <<"application/json">>)
  ELSE IF c.provider = "azure-openai"
  THEN ("Content-Type" :> <<"application/json">>) @@ ("api-key" :> <<API_KEY>>)
  ELSE ("Content-Type" :> <<"application/json">>)
         @@ ("Authorization" :> <<"Bearer ", API_KEY>>)
\* lines 72-122
BuildRequest(c, msgs) ==
  [url |-> get_api_url(c), headers |-> Headers(c), body |-> Body(c, msgs)]

\* ---- JSON values of a reply: objects and lists ----
Obj(f) == [t |-> "object", v |-> f]
List(xs) == [t |-> "list", v |-> xs]
EmptyObj == Obj(<<>>)
\* dict.get(key, default)
Get(d, key, default) == IF key \in DOMAIN d.v THEN d.v[key] ELSE default
Returned(text) == [kind |-> "ok", text |-> text]
Raised(e) == [kind |-> "raised", text |-> e]

\* lines 132-137
ExtractText(provider, res) ==
  IF provider = "anthropic"
  THEN LET content == Get(res, "content", List(<<EmptyObj>>))
       IN  IF content.v = <<>> THEN Raised("list index out of range")
           ELSE Returned(Get(content.v[1], "text", ""))
  ELSE IF provider = "ollama"
  THEN Returned(Get(Get(res, "message", EmptyObj), "content", ""))
  ELSE LET choices == Get(res, "choices", List(<<EmptyObj>>))
       IN  IF choices.v = <<>> THEN Raised("list index out of range")
           ELSE Returned(Get(Get(choices.v[1], "message", EmptyObj), "content", ""))

\* replies of a provider: the complete one, and JSON objects that lack the
\* expected fields at one level
FullReply(provider) ==
  IF provider = "anthropic"
  THEN Obj([content |-> List(<<Obj([type |-> "text", text |-> "r1"])>>)])
  ELSE IF provider = "ollama"
  THEN Obj([message |-> Obj([role |-> "assistant", content |-> "r1"])])
  ELSE Obj([choices |->
              List(<<Obj([message |-> Obj([role |-> "assistant", content |-> "r1"])])>>)])
LackingReplies(provider) ==
  IF provider = "anthropic"
  THEN { EmptyObj,
         Obj([content |-> List(<<>>)]),
         Obj([content |-> List(<<Obj([type |-> "text"])>>)]) }
  ELSE IF provider = "ollama"
  THEN { EmptyObj,
         Obj([message |-> Obj([role |-> "assistant"])]) }
  ELSE { EmptyObj,
         Obj([choices |-> List(<<>>)]),
         Obj([choices |-> List(<<Obj([index |-> "0"])>>)]),
         Obj([choices |-> List(<<Obj([message |-> Obj([role |-> "assistant"])])>>)]) }
Replies(provider) == {FullReply(provider)} \cup LackingReplies(provider)

Core == <<tasks, cst, creq, cresp, backlog, issued, wpc, wcl, wid, wtask,
          wtext, wprior, lastOpBy, cout, overlap>>
AdapterInit ==
  /\ CoreInit
  /\ config \in Configs
  /\ messages = <<>>
  /\ request = NoRequest
  /\ result = NoResult
  /\ response_text = NoOutcome
  /\ atask = NoTask
  /\ apc = "create"

\* create_task, lines 147-159
BuildMessages ==
  /\ apc = "create"
  /\ atask' = NewTask(<<"a">>)
  /\ messages' = BuildMessagesList(config, "Hi")
  /\ apc' = "build"
  /\ UNCHANGED <<Core, config, request, result, response_text>>
\* call_llm, lines 72-122
Build ==
  /\ apc = "build"
  /\ request' = BuildRequest(config, messages)
  /\ apc' = "urlopen"
  /\ UNCHANGED <<Core, config, messages, result, response_text, atask>>
\* lines 124-126: the provider answers with a JSON object
UrlopenReturns ==
  /\ apc = "urlopen"
  /\ \E reply \in Replies(config.provider) : result' = reply
  /\ apc' = "extract"
  /\ UNCHANGED <<Core, config, messages, request, response_text, atask>>
\* lines 127-129: the provider answers with an error status
UrlopenRaises ==
  /\ apc = "urlopen"
  /\ response_text' = Raised("LLM API error 500: boom")
  /\ apc' = "finish"
  /\ UNCHANGED <<Core, config, messages, request, result, atask>>
\* lines 132-137
Extract ==
  /\ apc = "extract"
  /\ response_text' = ExtractText(config.provider, result)
  /\ apc' = "finish"
  /\ UNCHANGED <<Core, config, messages, request, result, atask>>
\* create_task, lines 163-170
TaskCompleted ==
  /\ apc = "finish"
  /\ response_text.kind = "ok"
  /\ atask' = [atask EXCEPT !.artifacts = Append(@, response_text.text),
                            !.status = CompletedStatus,
                            !.history = Append(@, response_text.text)]
  /\ apc' = "done"
  /\ UNCHANGED <<Core, config, messages, request, result, response_text>>
\* create_task, lines 171-177
TaskFailed ==
  /\ apc = "finish"
  /\ response_text.kind = "raised"
  /\ atask' = [atask EXCEPT !.status = FailedStatus(response_text.text)]
  /\ apc' = "done"
  /\ UNCHANGED <<Core, config, messages, request, result, response_text>>

AdapterNext ==
  \/ BuildMessages
  \/ Build
  \/ UrlopenReturns
  \/ UrlopenRaises
  \/ Extract
  \/ TaskCompleted
  \/ TaskFailed
AdapterSpec == AdapterInit /\ [][AdapterNext]_vars

\* ======================= properties =======================

\* what a run of create_task for task_id leaves when the provider did o
Expected(task_id, o) ==
  IF o.kind = "ok"
  THEN [id |-> task_id, status |-> [state |-> "completed", message |-> <<>>],
        artifacts |-> <<o.text>>, history |-> <<o.text>>]
  ELSE [id |-> task_id, status |-> [state |-> "failed", message |-> <<o.text>>],
        artifacts |-> <<>>, history |-> <<>>]
FailureKinds == {"http_error", "network", "bad_json"}
\* client c holds the response to a tasks/send that had text
GotSend(c) == cst[c] = "got" /\ ValidSend(creq[c])
\* client c holds the response of the last operation handled on task_id
Latest(c, task_id) == task_id \in TaskIds /\ lastOpBy[task_id] = c
\* the step in which the request of client c, of that method, is handled
HandledNow(c, method) ==
  /\ cst[c] = "waiting" /\ backlog # <<>> /\ Head(backlog) = c
  /\ creq[c].method = method
  /\ cst'[c] = "got"

\* C1: whatever the provider did, the task a tasks/send with text returns is
\* completed or failed, never working.
C1_SendReturnsCompletedOrFailed ==
  \A c \in Clients :
    GotSend(c) =>
      /\ cresp[c].kind = "result"
      /\ cout[c].kind \in {"ok"} \cup FailureKinds
      /\ cresp[c].task.status.state \in {"completed", "failed"}
C1_Witness ==
  \E c, d \in Clients :
    /\ GotSend(c) /\ cout[c].kind = "ok"
    /\ cresp[c].task.status.state = "completed"
    /\ GotSend(d) /\ cout[d].kind = "network"
    /\ cresp[d].task.status.state = "failed"

\* C2: a stored status completed or failed is not overwritten by a later
\* tasks/send of the same identifier whose provider call succeeds.
C2_TerminalStatusKept ==
  \A w \in Workers :
    ( /\ wpc[w] = "return"
      /\ cout[wcl[w]].kind = "ok"
      /\ wprior[w] \in {"completed", "failed"} )
    => tasks[wid[w]].obj.status.state = wprior[w]

C4_FailureIsAResult ==
  \A c \in Clients :
    (GotSend(c) /\ cout[c].kind \in FailureKinds) =>
      /\ cresp[c].kind = "result"
      /\ cresp[c].task.status.state = "failed"
      /\ cresp[c].task.status.message = <<cout[c].text>>
      /\ cresp[c].task.artifacts = <<>>
      /\ cresp[c].task.history = <<>>
C4_Witness ==
  \E c, d \in Clients :
    /\ GotSend(c) /\ cout[c].kind = "http_error"
    /\ cresp[c].task.status.message = <<"LLM API error 500: boom">>
    /\ GotSend(d) /\ cout[d].kind = "bad_json"
    /\ cresp[d].task.status.state = "failed"

\* C5: tasks/cancel of a stored task, whatever its state, sets the stored
\* status to canceled and returns a result with that id and state canceled;
\* the tasks/get handled next on that id returns the task as canceled.
C5_CancelAnyState ==
  [][ /\ \A c \in Clients :
           (HandledNow(c, "tasks/cancel") /\ Stored(QueryId(creq[c]))) =>
             LET x == QueryId(creq[c])
             IN  /\ tasks'[x].present
                 /\ tasks'[x].obj.status.state = "canceled"
                 /\ cresp'[c].kind = "result"
                 /\ cresp'[c].task.id = x
                 /\ cresp'[c].task.status.state = "canceled"
      /\ \A c, d \in Clients :
           ( /\ HandledNow(d, "tasks/get")
             /\ Stored(QueryId(creq[d]))
             /\ cst[c] = "got" /\ creq[c].method = "tasks/cancel"
             /\ Latest(c, QueryId(creq[d])) )
           => /\ cresp'[d].kind = "result"
              /\ cresp'[d].task.id = QueryId(creq[d])
              /\ cresp'[d].task.status.state = "canceled"
    ]_vars
C5_Witness ==
  \E c, d \in Clients : \E x \in CallerIds :
    /\ cst[c] = "got" /\ creq[c].method = "tasks/cancel" /\ creq[c].id = <<x>>
    /\ cresp[c].task.status.state = "canceled"
    /\ cst[d] = "got" /\ creq[d].method = "tasks/get" /\ creq[d].id = <<x>>
    /\ Latest(d, x)
    /\ cresp[d].kind = "result"
    /\ cresp[d].task.status.state = "canceled"
    /\ cresp[d].task.artifacts # <<>>

\* C6: tasks/cancel of an identifier with no stored task returns a result
\* with that id and state canceled and leaves the store as it was, so that
\* a tasks/get of that identifier is still answered as unknown.
C6_CancelUnknownIsNoOp ==
  [][ /\ \A c \in Clients :
           (HandledNow(c, "tasks/cancel") /\ ~Stored(QueryId(creq[c]))) =>
             /\ cresp'[c].kind = "result"
             /\ cresp'[c].task.id = QueryId(creq[c])
             /\ cresp'[c].task.status.state = "canceled"
             /\ tasks' = tasks
      /\ \A d \in Clients :
           (HandledNow(d, "tasks/get") /\ ~Stored(QueryId(creq[d]))) =>
             /\ cresp'[d].kind = "error"
             /\ cresp'[d].code = -32602
             /\ tasks' = tasks
    ]_vars
C6_Witness ==
  \E c, d \in Clients : \E x \in CallerIds :
    /\ cst[c] = "got" /\ creq[c].method = "tasks/cancel" /\ creq[c].id = <<x>>
    /\ cresp[c].kind = "result" /\ cresp[c].task.id = x
    /\ cresp[c].task.status.state = "canceled"
    /\ cst[d] = "got" /\ creq[d].method = "tasks/get" /\ creq[d].id = <<x>>
    /\ Latest(d, x)
    /\ cresp[d].kind = "error" /\ cresp[d].code = -32602
    /\ ~tasks[x].present

\* C7: tasks/get answers from the store and never changes it: handled right
\* after a tasks/send of X returned it returns id X with the status that send
\* returned, and for an identifier that is not stored it returns the error
\* -32602.
C7_GetReflectsStore ==
  [][ \A d \in Clients :
        HandledNow(d, "tasks/get") =>
          LET x == QueryId(creq[d])
          IN  /\ tasks' = tasks
              /\ ~Stored(x) =>
                   cresp'[d].kind = "error" /\ cresp'[d].code = -32602
              /\ \A c \in Clients :
                   (GotSend(c) /\ Latest(c, x)) =>
                     /\ cresp'[d].kind = "result"
                     /\ cresp'[d].task.id = x
                     /\ cresp'[d].task.status = cresp[c].task.status
                     /\ cresp'[d].task.status.state \in {"completed", "failed"}
    ]_vars
C7_Witness ==
  \E c, d \in Clients : \E x \in CallerIds :
    /\ GotSend(c) /\ creq[c].id = <<x>>
    /\ cresp[c].task.status.state = "failed"
    /\ cst[d] = "got" /\ creq[d].method = "tasks/get" /\ creq[d].id = <<x>>
    /\ Latest(d, x)
    /\ cresp[d].kind = "result" /\ cresp[d].task.id = x
    /\ cresp[d].task.status = cresp[c].task.status

\* C8: while the provider call of a tasks/send of X is in flight the store
\* holds X as working, and a tasks/get of X that arrived meanwhile is handled
\* concurrently with the call and returns the task as working.
C8_GetDuringCallSeesWorking ==
  \A w \in Workers :
    wpc[w] = "call" =>
      /\ tasks[wid[w]].present
      /\ tasks[wid[w]].obj.status.state = "working"
      /\ \A d \in Clients :
           ( /\ cst[d] = "waiting"
             /\ \E i \in 1 .. Len(backlog) : backlog[i] = d
             /\ creq[d].method = "tasks/get"
             /\ QueryId(creq[d]) = wid[w] )
           => /\ \E v \in Workers : wpc[v] = "idle"
              /\ GetResponse(creq[d].rid, wid[w]).task.status.state = "working"

\* C9: sends of distinct identifiers do not touch each other's record: as
\* long as a send is the last operation handled on its identifier, the
\* stored record is the outcome of that send's own provider call.
C9_DistinctIdsIsolated ==
  \A c \in Clients : \A x \in TaskIds :
    (GotSend(c) /\ Latest(c, x)) =>
      /\ tasks[x].present
      /\ tasks[x].obj = Expected(x, cout[c])
C9_Witness ==
  \E c, d \in Clients :
    /\ GotSend(c) /\ Latest(c, <<"a">>)
    /\ GotSend(d) /\ Latest(d, <<"b">>)
    /\ cout[c] = [kind |-> "ok", text |-> "r1"]
    /\ cout[d] = [kind |-> "ok", text |-> "r2"]
    /\ tasks[<<"a">>].obj.artifacts = <<"r1">>
    /\ tasks[<<"b">>].obj.artifacts = <<"r2">>

\* C10: when two sends of the same identifier overlap in time, the record
\* stored after both returned is not working and is the whole outcome of
\* one of the two calls, never a mixture.
C10_SameIdNoLostUpdate ==
  \A c, d \in Clients :
    ( /\ c # d
      /\ GotSend(c) /\ GotSend(d)
      /\ creq[c].id # <<>> /\ creq[c].id = creq[d].id
      /\ overlap[c] /\ overlap[d] )
    => LET x == creq[c].id[1]
       IN  /\ tasks[x].present
           /\ tasks[x].obj.status.state # "working"
           /\ tasks[x].obj \in {Expected(x, cout[c]), Expected(x, cout[d])}
C10_Witness ==
  \E c, d \in Clients :
    /\ c # d
    /\ GotSend(c) /\ GotSend(d)
    /\ creq[c].id = <<<<"a">>>> /\ creq[d].id = <<<<"a">>>>
    /\ overlap[c] /\ overlap[d]
    /\ cout[c] = [kind |-> "ok", text |-> "r1"]
    /\ cout[d].kind = "http_error"
    /\ tasks[<<"a">>].obj = Expected(<<"a">>, cout[d])

\* C11: no stored task stays working for ever: once the provider call
\* returns, fails or times out, a record that is working becomes completed
\* or failed (or is canceled or replaced).
C11_WorkingEnds ==
  \A x \in TaskIds :
    (tasks[x].present /\ tasks[x].obj.status.state = "working")
      ~> ~(tasks[x].present /\ tasks[x].obj.status.state = "working")
C11_Witness ==
  \E c \in Clients : \E x \in TaskIds :
    /\ GotSend(c) /\ Latest(c, x)
    /\ cout[c].kind = "network"
    /\ tasks[x].obj.status.state = "failed"

\* no part of the message carries non-empty text
NoTextIn(parts) ==
  \A i \in 1 .. Len(parts) :
    ~(parts[i].isDict /\ parts[i].hasText /\ parts[i].text # <<>>)
\* the step in which the server takes the request of client c
TakenNow(c) ==
  /\ cst[c] = "waiting" /\ backlog # <<>> /\ Head(backlog) = c
  /\ backlog' = Tail(backlog)

\* C12: a tasks/send whose message has no part with non-empty text returns
\* the error -32602, calls no provider and leaves the store as it was.
C12_NoTextRejected ==
  [][ \A c \in Clients :
        ( /\ TakenNow(c)
          /\ creq[c].method = "tasks/send"
          /\ NoTextIn(creq[c].parts) )
        => /\ cst'[c] = "got"
           /\ cresp'[c].kind = "error"
           /\ cresp'[c].code = -32602
           /\ tasks' = tasks
           /\ wpc' = wpc
           /\ cout'[c] = NoOutcome
    ]_vars
C12_Witness ==
  \E c \in Clients :
    /\ cst[c] = "got"
    /\ creq[c].method = "tasks/send"
    /\ creq[c].id = <<<<"a">>>>
    /\ creq[c].parts = <<NoTextPart, TextPart(<<>>)>>
    /\ cresp[c].kind = "error" /\ cresp[c].code = -32602
    /\ cout[c] = NoOutcome
    /\ tasks[<<"a">>].present
    /\ tasks[<<"a">>].obj.status.state = "completed"

\* the request of client c is a JSON-RPC call posted to the dispatcher
PostedRpc(c) ==
  /\ creq[c].verb = "POST" /\ creq[c].body = "object"
  /\ creq[c].path \in {"/", "/a2a"}

\* C13: a JSON-RPC request whose method is none of tasks/send, tasks/get
\* and tasks/cancel, a missing method included, returns the error -32601
\* with the id of the request, and leaves the task store unchanged.
C13_UnknownMethod ==
  [][ \A c \in Clients :
        ( /\ TakenNow(c)
          /\ PostedRpc(c)
          /\ creq[c].method \notin {"tasks/send", "tasks/get", "tasks/cancel"} )
        => /\ cst'[c] = "got"
           /\ cresp'[c].kind = "error"
           /\ cresp'[c].code = -32601
           /\ cresp'[c].rid = creq[c].rid
           /\ tasks' = tasks
    ]_vars
C13_Witness ==
  \E c, d \in Clients :
    /\ cst[c] = "got" /\ PostedRpc(c)
    /\ creq[c].method = "tasks/list" /\ creq[c].rid = <<1>>
    /\ cresp[c].kind = "error" /\ cresp[c].code = -32601
    /\ cresp[c].rid = <<1>>
    /\ cst[d] = "got" /\ PostedRpc(d)
    /\ creq[d].method = "" /\ creq[d].rid = <<>>
    /\ cresp[d].kind = "error" /\ cresp[d].code = -32601
    /\ \E x \in TaskIds : tasks[x].present

C15_UnparseableIsBadRequest ==
  \A c \in Clients :
    ( /\ cst[c] = "got"
      /\ creq[c].verb = "POST" /\ creq[c].path \in {"/", "/a2a"}
      /\ creq[c].body \in {"badjson", "badutf8"} )
    => /\ cresp[c].http = 400
       /\ cresp[c].kind \notin {"result", "error"}
       /\ cresp[c].kind = "invalid JSON"

\* the request of the run has been built
Built == apc \in {"urlopen", "extract", "finish", "done"}
\* the body and headers openai is documented to get
OpenAIShape ==
  /\ DOMAIN request.headers = {"Content-Type", "Authorization"}
  /\ request.headers["Authorization"] = <<"Bearer ", "sk-1">>
  /\ DOMAIN request.body = {"model", "messages", "max_completion_tokens"}
  /\ request.body["model"] = "gpt-5"
  /\ request.body["messages"] = messages

\* C16: openai sends Authorization: Bearer <key> with body {model, messages,
\* max_completion_tokens}; azure-openai the same body with header api-key
\* and no Authorization; anthropic x-api-key and anthropic-version with body
\* {model, max_tokens, messages}, the system message in a separate system
\* field and only the other messages in messages; ollama no auth header
\* with body {model, messages, stream: false}; any other identifier is
\* treated exactly as openai.
C16_RequestShape ==
  Built =>
    /\ config.provider = "openai" => OpenAIShape
    /\ config.provider = "azure-openai" =>
         /\ DOMAIN request.headers = {"Content-Type", "api-key"}
         /\ request.headers["api-key"] = <<"sk-1">>
         /\ DOMAIN request.body = {"model", "messages", "max_completion_tokens"}
         /\ request.body["messages"] = messages
    /\ config.provider = "anthropic" =>
         /\ DOMAIN request.headers = {"Content-Type", "x-api-key", "anthropic-version"}
         /\ request.headers["x-api-key"] = <<"sk-1">>
         /\ DOMAIN request.body \ {"system"} = {"model", "max_tokens", "messages"}
         /\ \A i \in 1 .. Len(request.body["messages"]) :
              request.body["messages"][i].role # "system"
         /\ request.body["messages"] =
              <<[role |-> "user", content |-> "Hi"]>>
         /\ \A i \in 1 .. Len(messages) :
              messages[i].role = "system" =>
                /\ "system" \in DOMAIN request.body
                /\ request.body["system"] = messages[i].content
         /\ "system" \in DOMAIN request.body =>
              \E i \in 1 .. Len(messages) : messages[i].role = "system"
    /\ config.provider = "ollama" =>
         /\ DOMAIN request.headers = {"Content-Type"}
         /\ DOMAIN request.body = {"model", "messages", "stream"}
         /\ request.body["stream"] = FALSE
         /\ request.body["messages"] = messages
    /\ config.provider \notin {"openai", "azure-openai", "anthropic", "ollama"} =>
         /\ OpenAIShape
         /\ request = BuildRequest([config EXCEPT !.provider = "openai"], messages)
C16_Witness ==
  /\ apc = "done"
  /\ config.provider = "anthropic"
  /\ Len(messages) = 2 /\ messages[1].role = "system"
  /\ request.body["system"] = "An AgentOven managed agent"
  /\ Len(request.body["messages"]) = 1

\* C17: for each provider, a JSON-object reply that lacks the expected
\* fields at any level yields the empty string, not an exception: the task
\* ends completed with one artifact of empty text, not failed.
C17_LackingReplyIsEmptyText ==
  ( /\ apc = "done"
    /\ result # NoResult
    /\ result # FullReply(config.provider) )
  => /\ response_text = [kind |-> "ok", text |-> ""]
     /\ atask.status.state = "completed"
     /\ atask.artifacts = <<"">>

\* the shape of a task record by its state
Shape(task) ==
  /\ task.status.state = "completed" =>
       /\ Len(task.artifacts) = 1
       /\ Len(task.history) = 1
       /\ task.artifacts[1] = task.history[1]
  /\ task.status.state \in {"working", "failed"} =>
       /\ task.artifacts = <<>>
       /\ task.history = <<>>

\* C18, as stated: in every state of the store, the intermediate steps of a
\* run included, a stored completed task has exactly one artifact and one
\* history entry with the same text, and a stored working or failed task
\* has no artifact and no history entry.
C18_ShapeInEveryState ==
  \A x \in TaskIds : tasks[x].present => Shape(tasks[x].obj)
\* C18, amended: the shape holds in every state in which the server takes a
\* request, and in every task a tasks/get returns; the server takes a
\* request only when no run is in progress, and no stored task is working
\* then.  During a run the store passes through states no request observes:
\* working with one artifact, and completed with one artifact and no
\* history entry.
C18_ShapeWhenObserved ==
  [][ \A c \in Clients :
        TakenNow(c) =>
          /\ \A x \in TaskIds :
               tasks[x].present =>
                 /\ Shape(tasks[x].obj)
                 /\ tasks[x].obj.status.state # "working"
          /\ (creq[c].method = "tasks/get" /\ cresp'[c].kind = "result")
               => Shape(cresp'[c].task)
    ]_vars
C18_Witness ==
  \E c \in Clients :
    /\ cst[c] = "got" /\ creq[c].method = "tasks/get"
    /\ creq[c].id = <<<<"a">>>>
    /\ cresp[c].kind = "result"
    /\ cresp[c].task.status.state = "completed"
    /\ cresp[c].task.artifacts = <<"r1">>
    /\ cresp[c].task.history = <<"r1">>
    /\ tasks[<<"b">>].present
    /\ tasks[<<"b">>].obj.status.state = "failed"

\* the request the server is handling, or is about to take, operates on x
Operated(x) ==
  \/ \E w \in Workers : wpc[w] # "idle" /\ wid[w] = x
  \/ /\ backlog # <<>>
     /\ LET r == creq[Head(backlog)]
        IN  \/ r.id = <<x>>
            \/ r.id = <<>> /\ r.method = "tasks/send" /\ ~tasks[x].present

\* C19: every operation on identifier X (a tasks/send that succeeds or
\* fails, a tasks/get, a tasks/cancel) leaves the stored record of every
\* other identifier unchanged in status, artifacts and history, and no
\* record is removed.
C19_OtherRecordsUnchanged ==
  [][ \A x \in TaskIds :
        /\ (tasks[x].present => tasks'[x].present)
        /\ (tasks'[x].present # tasks[x].present \/ tasks'[x].obj # tasks[x].obj)
             => /\ Operated(x)
                /\ \A y \in TaskIds \ {x} :
                     /\ tasks'[y].present = tasks[y].present
                     /\ tasks'[y].obj = tasks[y].obj
    ]_vars
C19_Witness ==
  \E c, d \in Clients :
    /\ GotSend(c) /\ creq[c].id = <<<<"b">>>>
    /\ cresp[c].task.status.state = "failed"
    /\ tasks[<<"b">>].obj.status.state = "failed"
    /\ cst[d] = "got" /\ creq[d].method = "tasks/cancel"
    /\ creq[d].id = <<<<"b">>>>
    /\ tasks[<<"a">>].present
    /\ tasks[<<"a">>].obj = Expected(<<"a">>, [kind |-> "ok", text |-> "r1"])

\* C20: once tasks/cancel has set the status of a stored task to canceled,
\* nothing changes that status again, not the completion or failure of a
\* provider call that was in flight when the cancel arrived either; only a
\* new tasks/send of the same identifier replaces the record.
C20_CanceledIsFinal ==
  [][ \A x \in TaskIds :
        (tasks[x].present /\ tasks[x].obj.status.state = "canceled")
        => \/ /\ tasks'[x].present
              /\ tasks'[x].obj.status = tasks[x].obj.status
           \/ /\ tasks'[x].present
              /\ tasks'[x].obj.status.state = "working"
              /\ tasks'[x].obj.artifacts = <<>>
              /\ \E c \in Clients :
                   /\ TakenNow(c)
                   /\ creq[c].method = "tasks/send"
                   /\ creq[c].id = <<x>>
    ]_vars
C20_Witness ==
  \E c, d \in Clients :
    /\ cst[c] = "got" /\ creq[c].method = "tasks/cancel"
    /\ creq[c].id = <<<<"a">>>>
    /\ overlap[c]
    /\ Latest(c, <<"a">>)
    /\ GotSend(d) /\ creq[d].id = <<<<"a">>>>
    /\ cresp[d].task.status.state = "completed"
    /\ tasks[<<"a">>].obj.status.state = "canceled"
    /\ tasks[<<"a">>].obj.artifacts = <<"r1">>

====
